---- MODULE Spec2Model ----
(***************************************************************************)
(* Model of Capstone_Project/app.py, a Streamlit script.  Streamlit runs   *)
(* the script from its first line to its last once when the session opens  *)
(* and once more after every widget interaction; st.sidebar.button returns *)
(* True only in the run its click started; the other widgets return the    *)
(* value kept in the session.  Script variables live for one run.          *)
(*                                                                         *)
(* Units: rainfall in mm, pesticide in tonnes, avg_temp in degrees (the    *)
(* slider values taken are whole numbers); scaled features and predictions *)
(* are in hundredths, so that the two decimals shown are exact.            *)
(***************************************************************************)
EXTENDS Integers, Sequences, FiniteSets, TLC

\* ---------------------------------------------------------------- bounds
\* Script runs in one session (the first run plus the reruns).
MaxRuns == 6

\* ------------------------------------------------------ widget constants
YearMin == 2010
YearMax == 2030
YearDefault == 2024
TempMin == -10
TempMax == 45
TempDefault == 20
RainMin == 0
RainMax == 8000
RainDefault == 1200
PestMin == 0
PestMax == 400000
PestDefault == 50000

\* Values a user is taken to move each widget to.
YearValues == {YearDefault, YearMax}
TempValues == {TempDefault, TempMin}
RainValues == {RainDefault, RainMax}
PestValues == {PestDefault, PestMin}

\* ---------------------------------------------------------------- state
VARIABLES
    files,              \* the four artifact files on disk
    session,            \* Streamlit's widget state, kept across reruns
    button,             \* whether this run was started by 'Predict Crop Yield'
    pc,                 \* the statement the running script is at
    model, scaler, le_area, le_item,
    area_options, item_options,
    year, avg_temp, rainfall, pesticide_tonnes, item_choice, area_choice,
    item_encoded, area_encoded, input_data, input_data_scaled, prediction,
    display,            \* what this run has put on the page, in order
    widgets,            \* the input widgets this run has rendered, in order
    trace,              \* the steps of the button handler this run has taken
    caught,             \* the exceptions this run has caught, in order
    nRuns,              \* script runs started in this session
    nLoads,             \* successful pickle.load calls per file, over the session
    firstPress          \* the first completed press of the session

\* ------------------------------------------------------------- helpers
Range(s) == {s[i] : i \in DOMAIN s}

IndexOf(s, x) == CHOOSE i \in DOMAIN s : s[i] = x

Str(s) == [str |-> s]
Num(n) == [num |-> n]

\* str.title() on the category names used here.
Title(s) ==
    CASE s = "kenya" -> "Kenya"
      [] s = "nigeria" -> "Nigeria"
      [] s = "maize" -> "Maize"
      [] s = "rice" -> "Rice"
      [] s = "wheat" -> "Wheat"
      [] OTHER -> s

\* A script variable that no statement of this run has assigned yet.
Unbound == [kind |-> "unbound"]
NoCode == -1
NoFrame == [columns |-> <<>>, row |-> <<>>]

feature_names ==
    <<"year", "average_rain_fall_mm_per_year", "avg_temp", "pesticide_tonnes",
      "area_encoded", "item_encoded">>

\* ------------------------------------------------------- artifact files
ArtifactOrder == <<"crop_yield_model.pkl", "scaler.pkl", "le_area.pkl", "le_item.pkl">>

Missing == [kind |-> "missing"]
Corrupt == [kind |-> "corrupt"]
Pickled(o) == [kind |-> "object", obj |-> o]

Regressor(n) ==
    [class |-> "regressor", n_features_in |-> n,
     coef |-> <<3, 1, -2, 1, 7, 11>>, intercept |-> 20000]

Scaler(names) ==
    [class |-> "scaler", feature_names_in |-> names,
     mean |-> <<2020, 1000, 15, 40000, 1, 1>>,
     scale |-> <<5, 500, 10, 20000, 1, 1>>]

Encoder(cls) == [class |-> "LabelEncoder", fitted |-> TRUE, classes |-> cls]
UnfittedEncoder == [class |-> "LabelEncoder", fitted |-> FALSE]

ModelFiles == {Missing, Corrupt, Pickled(Regressor(6)), Pickled(Regressor(5))}
ScalerFiles ==
    {Missing, Corrupt, Pickled(Scaler(feature_names)),
     Pickled(Scaler(SubSeq(feature_names, 1, 5)))}
AreaFiles ==
    {Missing, Corrupt, Pickled(UnfittedEncoder),
     Pickled(Encoder(<<"kenya", "nigeria">>)),
     Pickled(Encoder(<<"Error", "kenya">>))}
ItemFiles ==
    {Missing, Pickled(UnfittedEncoder), Pickled(Encoder(<<>>)),
     Pickled(Encoder(<<"maize", "rice", "wheat">>))}

\* The working directories the script may be started in.
Disks ==
    {[n \in Range(ArtifactOrder) |->
        CASE n = ArtifactOrder[1] -> m
          [] n = ArtifactOrder[2] -> s
          [] n = ArtifactOrder[3] -> a
          [] n = ArtifactOrder[4] -> i] :
      m \in ModelFiles, s \in ScalerFiles, a \in AreaFiles, i \in ItemFiles}

\* The exception open() or pickle.load raises on a file, as type and text.
LoadException(name, f) ==
    IF f.kind = "missing"
    THEN [type |-> "FileNotFoundError", text |-> "No such file or directory", at |-> name]
    ELSE [type |-> "UnpicklingError", text |-> "invalid load key", at |-> name]

\* ------------------------------------------------- artifact operations
\* Mutant of Transform: codes handed out by a running counter instead of
\* the position among classes_.
TransformCounting(le, x) ==
    IF x \in Range(le.classes)
    THEN [ok |-> TRUE, val |-> IndexOf(le.classes, x) - 1 + nRuns]
    ELSE [ok |-> FALSE,
          exc |-> [type |-> "ValueError", text |-> "y contains previously unseen labels"]]

\* LabelEncoder.transform([x])[0]: the position of x among classes_, from 0.
Transform(le, x) ==
    IF x \in Range(le.classes)
    THEN [ok |-> TRUE, val |-> IndexOf(le.classes, x) - 1]
    ELSE [ok |-> FALSE,
          exc |-> [type |-> "ValueError", text |-> "y contains previously unseen labels"]]

\* scaler.transform(frame): checks the column labels against those seen at
\* fit time, then standardizes each column.
ScalerTransform(sc, frame) ==
    IF frame.columns # sc.feature_names_in
    THEN [ok |-> FALSE,
          exc |-> [type |-> "ValueError",
                   text |-> "The feature names should match those that were passed during fit"]]
    ELSE [ok |-> TRUE,
          val |-> [i \in DOMAIN frame.row |->
                     ((frame.row[i] - sc.mean[i]) * 100) \div sc.scale[i]]]

RECURSIVE Dot(_, _, _)
Dot(c, x, n) == IF n = 0 THEN 0 ELSE Dot(c, x, n - 1) + c[n] * x[n]

\* model.predict(X) on a one-row batch: a one-element array.
ModelPredict(m, x) ==
    IF Len(x) # m.n_features_in
    THEN [ok |-> FALSE,
          exc |-> [type |-> "ValueError", text |-> "X has a different number of features"]]
    ELSE [ok |-> TRUE, val |-> <<m.intercept + Dot(m.coef, x, Len(x)) \div 100>>]

locals ==
    <<model, scaler, le_area, le_item, area_options, item_options,
      year, avg_temp, rainfall, pesticide_tonnes, item_choice, area_choice,
      item_encoded, area_encoded, input_data, input_data_scaled, prediction>>

vars ==
    <<files, session, button, pc, locals, display, widgets, trace, caught,
      nRuns, nLoads, firstPress>>

\* The namespace of a run before its first statement.
FreshLocals ==
    /\ model' = Unbound /\ scaler' = Unbound
    /\ le_area' = Unbound /\ le_item' = Unbound
    /\ area_options' = <<>> /\ item_options' = <<>>
    /\ year' = 0 /\ avg_temp' = 0 /\ rainfall' = 0 /\ pesticide_tonnes' = 0
    /\ item_choice' = "None" /\ area_choice' = "None"
    /\ item_encoded' = NoCode /\ area_encoded' = NoCode
    /\ input_data' = NoFrame /\ input_data_scaled' = <<>> /\ prediction' = <<>>

DefaultSession ==
    [year |-> YearDefault, avg_temp |-> TempDefault, rainfall |-> RainDefault,
     pesticide_tonnes |-> PestDefault, item |-> 1, area |-> 1]

NoPress == [done |-> FALSE]

Init ==
    /\ files \in Disks
    /\ session = DefaultSession
    /\ button = FALSE
    /\ pc = "load"
    /\ model = Unbound /\ scaler = Unbound /\ le_area = Unbound /\ le_item = Unbound
    /\ area_options = <<>> /\ item_options = <<>>
    /\ year = 0 /\ avg_temp = 0 /\ rainfall = 0 /\ pesticide_tonnes = 0
    /\ item_choice = "None" /\ area_choice = "None"
    /\ item_encoded = NoCode /\ area_encoded = NoCode
    /\ input_data = NoFrame /\ input_data_scaled = <<>> /\ prediction = <<>>
    /\ display = <<>> /\ widgets = <<>> /\ trace = <<>> /\ caught = <<>>
    /\ nRuns = 1
    /\ nLoads = [n \in Range(ArtifactOrder) |-> 0]
    /\ firstPress = NoPress

\* ------------------------------------------------------------- messages
Msg(fn, line, text, args) == [fn |-> fn, line |-> line, text |-> text, args |-> args]

\* Lines 12-17: the two handlers of the loading try block.
LoadErrorMessage(e) ==
    IF e.type = "FileNotFoundError"
    THEN Msg("st.error", 13,
             "Model files not found! Please run the training script first.", <<>>)
    ELSE Msg("st.error", 16, "An error occurred loading files: {e}", <<Str(e.text)>>)

ClassesErrorMessage ==
    Msg("st.sidebar.error", 39, "Error reading encoder classes.", <<>>)

GuardErrorMessage ==
    Msg("st.error", 54, "Cannot make prediction. Encoders were not loaded correctly.", <<>>)

\* Mutant of PredictionErrorMessage: a generic message without the text.
PredictionErrorGeneric(e) ==
    Msg("st.error", 86, "An error occurred during prediction.", <<>>)

PredictionErrorMessage(e) ==
    Msg("st.error", 86, "An error occurred during prediction: {e}", <<Str(e.text)>>)

HeaderMessages ==
    <<Msg("st.title", 24, "Crop Yield Prediction for Smallholder Farmers", <<>>),
      Msg("st.markdown", 26, "This app predicts crop yield (in **hg/ha**) ...", <<>>),
      Msg("st.sidebar.header", 32, "Input Features", <<>>)>>

ResultMessages(item, area, p, pest, rain, temp) ==
    <<Msg("st.subheader", 73, "Predicted Crop Yield for {item} in {area}:",
          <<Str(Title(item)), Str(Title(area))>>),
      Msg("st.success", 74, "**{prediction:.2f} hg/ha**", <<Num(p)>>),
      Msg("st.markdown", 77, "---", <<>>),
      Msg("st.header", 78, "How this prediction can help:", <<>>),
      Msg("st.markdown", 79, "Input Allocation / Risk Assessment / Market Planning",
          <<Num(p), Num(pest), Num(rain), Num(temp)>>)>>

\* ------------------------------------------------------- the script run
\* The first file pickle.load fails on, in loading order; 0 when none does.
FirstBad(disk) ==
    IF \A i \in DOMAIN ArtifactOrder : disk[ArtifactOrder[i]].kind = "object"
    THEN 0
    ELSE CHOOSE i \in DOMAIN ArtifactOrder :
            /\ disk[ArtifactOrder[i]].kind # "object"
            /\ \A j \in 1..(i - 1) : disk[ArtifactOrder[j]].kind = "object"

\* Mutant of LoadArtifacts: the handlers show the error and do not stop.
LoadArtifactsNoStop ==
    /\ pc = "load"
    /\ LET bad == FirstBad(files)
           upto == IF bad = 0 THEN Len(ArtifactOrder) ELSE bad - 1
           obj(i) == IF i <= upto THEN files[ArtifactOrder[i]].obj ELSE Unbound
       IN /\ model' = obj(1)
          /\ scaler' = obj(2)
          /\ le_area' = obj(3)
          /\ le_item' = obj(4)
          /\ nLoads' = [n \in DOMAIN nLoads |->
                          IF IndexOf(ArtifactOrder, n) <= upto
                          THEN nLoads[n] + 1 ELSE nLoads[n]]
          /\ IF bad = 0
             THEN UNCHANGED <<display, caught>>
             ELSE LET e == LoadException(ArtifactOrder[bad], files[ArtifactOrder[bad]])
                  IN /\ caught' = Append(caught, e)
                     /\ display' = Append(display, LoadErrorMessage(e))
          /\ pc' = "header"
    /\ UNCHANGED <<files, session, button, area_options, item_options, year, avg_temp,
                   rainfall, pesticide_tonnes, item_choice, area_choice, item_encoded,
                   area_encoded, input_data, input_data_scaled, prediction, widgets,
                   trace, nRuns, firstPress>>

\* Lines 7-17: load the four artifacts in order; the first failure shows an
\* error and st.stop() ends the run.
LoadArtifacts ==
    /\ pc = "load"
    /\ LET bad == FirstBad(files)
           upto == IF bad = 0 THEN Len(ArtifactOrder) ELSE bad - 1
           obj(i) == IF i <= upto THEN files[ArtifactOrder[i]].obj ELSE Unbound
       IN /\ model' = obj(1)
          /\ scaler' = obj(2)
          /\ le_area' = obj(3)
          /\ le_item' = obj(4)
          /\ nLoads' = [n \in DOMAIN nLoads |->
                          IF IndexOf(ArtifactOrder, n) <= upto
                          THEN nLoads[n] + 1 ELSE nLoads[n]]
          /\ IF bad = 0
             THEN /\ pc' = "header"
                  /\ UNCHANGED <<display, caught>>
             ELSE LET e == LoadException(ArtifactOrder[bad], files[ArtifactOrder[bad]])
                  IN /\ caught' = Append(caught, e)
                     /\ display' = Append(display, LoadErrorMessage(e))
                     /\ pc' = "halted"
    /\ UNCHANGED <<files, session, button, area_options, item_options, year, avg_temp,
                   rainfall, pesticide_tonnes, item_choice, area_choice, item_encoded,
                   area_encoded, input_data, input_data_scaled, prediction, widgets,
                   trace, nRuns, firstPress>>

\* Lines 24-32: title, description, sidebar header.
RenderHeader ==
    /\ pc = "header"
    /\ display' = display \o HeaderMessages
    /\ pc' = "options"
    /\ UNCHANGED <<files, session, button, locals, widgets, trace, caught, nRuns,
                   nLoads, firstPress>>

\* Mutant of ReadClasses: the handler resets item_options alone, so
\* area_options keeps the list line 36 gave it.
ReadClassesKeepArea ==
    /\ pc = "options"
    /\ IF le_area.fitted /\ le_item.fitted
       THEN /\ area_options' = le_area.classes
            /\ item_options' = le_item.classes
            /\ UNCHANGED <<display, caught>>
       ELSE /\ caught' = Append(caught,
                   [type |-> "AttributeError",
                    text |-> "'LabelEncoder' object has no attribute 'classes_'"])
            /\ display' = Append(display, ClassesErrorMessage)
            /\ area_options' = IF le_area.fitted THEN le_area.classes ELSE <<"Error">>
            /\ item_options' = <<"Error">>
    /\ pc' = "widgets"
    /\ UNCHANGED <<files, session, button, model, scaler, le_area, le_item, year,
                   avg_temp, rainfall, pesticide_tonnes, item_choice, area_choice,
                   item_encoded, area_encoded, input_data, input_data_scaled,
                   prediction, widgets, trace, nRuns, nLoads, firstPress>>

\* Lines 35-41: the option lists, from the encoders' classes_.
ReadClasses ==
    /\ pc = "options"
    /\ IF le_area.fitted /\ le_item.fitted
       THEN /\ area_options' = le_area.classes
            /\ item_options' = le_item.classes
            /\ UNCHANGED <<display, caught>>
       ELSE /\ caught' = Append(caught,
                   [type |-> "AttributeError",
                    text |-> "'LabelEncoder' object has no attribute 'classes_'"])
            /\ display' = Append(display, ClassesErrorMessage)
            /\ area_options' = <<"Error">>
            /\ item_options' = <<"Error">>
    /\ pc' = "widgets"
    /\ UNCHANGED <<files, session, button, model, scaler, le_area, le_item, year,
                   avg_temp, rainfall, pesticide_tonnes, item_choice, area_choice,
                   item_encoded, area_encoded, input_data, input_data_scaled,
                   prediction, widgets, trace, nRuns, nLoads, firstPress>>

\* st.selectbox: the option the session holds, None when there is no option.
Selected(options, i) == IF i \in DOMAIN options THEN options[i] ELSE "None"

\* Mutant of RenderWidgets: the handler runs on every rerun, pressed or not.
RenderWidgetsAlwaysPredict ==
    /\ pc = "widgets"
    /\ year' = session.year
    /\ avg_temp' = session.avg_temp
    /\ rainfall' = session.rainfall
    /\ pesticide_tonnes' = session.pesticide_tonnes
    /\ item_choice' = Selected(item_options, session.item)
    /\ area_choice' = Selected(area_options, session.area)
    /\ widgets' = <<"year", "avg_temp", "rainfall", "pesticide_tonnes", "item_choice",
                    "area_choice", "Predict Crop Yield">>
    /\ pc' = "guard"
    /\ UNCHANGED <<files, session, button, model, scaler, le_area, le_item,
                   area_options, item_options, item_encoded, area_encoded, input_data,
                   input_data_scaled, prediction, display, trace, caught, nRuns,
                   nLoads, firstPress>>

\* Lines 43-52: the six input widgets and the button.
RenderWidgets ==
    /\ pc = "widgets"
    /\ year' = session.year
    /\ avg_temp' = session.avg_temp
    /\ rainfall' = session.rainfall
    /\ pesticide_tonnes' = session.pesticide_tonnes
    /\ item_choice' = Selected(item_options, session.item)
    /\ area_choice' = Selected(area_options, session.area)
    /\ widgets' = <<"year", "avg_temp", "rainfall", "pesticide_tonnes", "item_choice",
                    "area_choice", "Predict Crop Yield">>
    /\ pc' = IF button THEN "guard" ELSE "done"
    /\ UNCHANGED <<files, session, button, model, scaler, le_area, le_item,
                   area_options, item_options, item_encoded, area_encoded, input_data,
                   input_data_scaled, prediction, display, trace, caught, nRuns,
                   nLoads, firstPress>>

\* Lines 53-55.
Guard ==
    /\ pc = "guard"
    /\ trace' = Append(trace, "guard")
    /\ IF "Error" \in Range(area_options)
       THEN /\ display' = Append(display, GuardErrorMessage)
            /\ pc' = "done"
       ELSE /\ display' = display
            /\ pc' = "encode_item"
    /\ UNCHANGED <<files, session, button, locals, widgets, caught, nRuns, nLoads,
                   firstPress>>

\* Mutant of Except: the handler shows the error and stops the session.
ExceptStop(e) ==
    /\ caught' = Append(caught, e)
    /\ display' = Append(display, PredictionErrorMessage(e))
    /\ pc' = "halted"

\* Lines 85-86: what the handler of the prediction try block does with e.
Except(e) ==
    /\ caught' = Append(caught, e)
    /\ display' = Append(display, PredictionErrorMessage(e))
    /\ pc' = "done"

\* Mutant of EncodeItem: fit_transform in place of transform, which refits
\* le_item on the one value.
EncodeItemRefit ==
    /\ pc = "encode_item"
    /\ trace' = Append(trace, "le_item.transform")
    /\ le_item' = Encoder(<<item_choice>>)
    /\ item_encoded' = 0
    /\ pc' = "encode_area"
    /\ UNCHANGED <<files, session, button, model, scaler, le_area,
                   area_options, item_options, year, avg_temp, rainfall,
                   pesticide_tonnes, item_choice, area_choice, area_encoded,
                   input_data, input_data_scaled, prediction, display, caught,
                   widgets, nRuns, nLoads, firstPress>>

\* Line 58.
EncodeItem ==
    /\ pc = "encode_item"
    /\ trace' = Append(trace, "le_item.transform")
    /\ LET r == Transform(le_item, item_choice)
       IN IF r.ok
          THEN /\ item_encoded' = r.val
               /\ pc' = "encode_area"
               /\ UNCHANGED <<display, caught>>
          ELSE /\ Except(r.exc)
               /\ UNCHANGED item_encoded
    /\ UNCHANGED <<files, session, button, model, scaler, le_area, le_item,
                   area_options, item_options, year, avg_temp, rainfall,
                   pesticide_tonnes, item_choice, area_choice, area_encoded,
                   input_data, input_data_scaled, prediction, widgets, nRuns, nLoads,
                   firstPress>>

\* Line 59.
EncodeArea ==
    /\ pc = "encode_area"
    /\ trace' = Append(trace, "le_area.transform")
    /\ LET r == Transform(le_area, area_choice)
       IN IF r.ok
          THEN /\ area_encoded' = r.val
               /\ pc' = "assemble"
               /\ UNCHANGED <<display, caught>>
          ELSE /\ Except(r.exc)
               /\ UNCHANGED area_encoded
    /\ UNCHANGED <<files, session, button, model, scaler, le_area, le_item,
                   area_options, item_options, year, avg_temp, rainfall,
                   pesticide_tonnes, item_choice, area_choice, item_encoded,
                   input_data, input_data_scaled, prediction, widgets, nRuns, nLoads,
                   firstPress>>

\* Mutant of Frame: the two codes in each other's place.
FrameSwapped(y, rain, temp, pest, area, item) ==
    [columns |-> feature_names, row |-> <<y, rain, temp, pest, item, area>>]

\* Lines 62-65: the one-row frame.
Frame(y, rain, temp, pest, area, item) ==
    [columns |-> feature_names, row |-> <<y, rain, temp, pest, area, item>>]

Assemble ==
    /\ pc = "assemble"
    /\ trace' = Append(trace, "assemble")
    /\ input_data' = Frame(year, rainfall, avg_temp, pesticide_tonnes, area_encoded,
                           item_encoded)
    /\ pc' = "scale"
    /\ UNCHANGED <<files, session, button, model, scaler, le_area, le_item,
                   area_options, item_options, year, avg_temp, rainfall,
                   pesticide_tonnes, item_choice, area_choice, item_encoded,
                   area_encoded, input_data_scaled, prediction, display, widgets,
                   caught, nRuns, nLoads, firstPress>>

\* Line 68.
Scale ==
    /\ pc = "scale"
    /\ trace' = Append(trace, "scaler.transform")
    /\ LET r == ScalerTransform(scaler, input_data)
       IN IF r.ok
          THEN /\ input_data_scaled' = r.val
               /\ pc' = "predict"
               /\ UNCHANGED <<display, caught>>
          ELSE /\ Except(r.exc)
               /\ UNCHANGED input_data_scaled
    /\ UNCHANGED <<files, session, button, model, scaler, le_area, le_item,
                   area_options, item_options, year, avg_temp, rainfall,
                   pesticide_tonnes, item_choice, area_choice, item_encoded,
                   area_encoded, input_data, prediction, widgets, nRuns, nLoads,
                   firstPress>>

\* Line 71.
Predict ==
    /\ pc = "predict"
    /\ trace' = Append(trace, "model.predict")
    /\ LET r == ModelPredict(model, input_data_scaled)
       IN IF r.ok
          THEN /\ prediction' = r.val
               /\ pc' = "render"
               /\ UNCHANGED <<display, caught>>
          ELSE /\ Except(r.exc)
               /\ UNCHANGED prediction
    /\ UNCHANGED <<files, session, button, model, scaler, le_area, le_item,
                   area_options, item_options, year, avg_temp, rainfall,
                   pesticide_tonnes, item_choice, area_choice, item_encoded,
                   area_encoded, input_data, input_data_scaled, widgets, nRuns,
                   nLoads, firstPress>>

\* Lines 73-83.
RenderResult ==
    /\ pc = "render"
    /\ trace' = Append(trace, "render")
    /\ display' = display \o ResultMessages(item_choice, area_choice, prediction[1],
                                            pesticide_tonnes, rainfall, avg_temp)
    /\ pc' = "done"
    /\ UNCHANGED <<files, session, button, locals, widgets, caught, nRuns, nLoads,
                   firstPress>>

\* The six input values of this run.
Inputs == <<year, rainfall, avg_temp, pesticide_tonnes, area_choice, item_choice>>

\* Line 88: the script returns and the page waits for the user.
EndRun ==
    /\ pc = "done"
    /\ pc' = "idle"
    /\ firstPress' =
         IF button /\ ~firstPress.done
         THEN [done |-> TRUE, artifacts |-> <<model, scaler, le_area, le_item>>,
               inputs |-> Inputs, codes |-> <<area_encoded, item_encoded>>,
               frame |-> input_data, outcome |-> display, others |-> 0]
         ELSE IF button /\ firstPress.inputs # Inputs
              THEN [firstPress EXCEPT !.others = @ + 1]
              ELSE firstPress
    /\ UNCHANGED <<files, session, button, locals, display, widgets, trace, caught,
                   nRuns, nLoads>>

\* ------------------------------------------------------ the user's moves
\* Streamlit reruns the script with the session as the interaction left it.
Rerun(s, pressed) ==
    /\ pc = "idle"
    /\ nRuns < MaxRuns
    /\ session' = s
    /\ button' = pressed
    /\ pc' = "load"
    /\ FreshLocals
    /\ display' = <<>> /\ widgets' = <<>> /\ trace' = <<>> /\ caught' = <<>>
    /\ nRuns' = nRuns + 1
    /\ UNCHANGED <<files, nLoads, firstPress>>

ChangeYear ==
    \E v \in YearValues \ {session.year} : Rerun([session EXCEPT !.year = v], FALSE)

ChangeTemp ==
    \E v \in TempValues \ {session.avg_temp} :
        Rerun([session EXCEPT !.avg_temp = v], FALSE)

ChangeRainfall ==
    \E v \in RainValues \ {session.rainfall} :
        Rerun([session EXCEPT !.rainfall = v], FALSE)

ChangePesticide ==
    \E v \in PestValues \ {session.pesticide_tonnes} :
        Rerun([session EXCEPT !.pesticide_tonnes = v], FALSE)

ChangeItem ==
    \E i \in DOMAIN item_options \ {session.item} :
        Rerun([session EXCEPT !.item = i], FALSE)

ChangeArea ==
    \E i \in DOMAIN area_options \ {session.area} :
        Rerun([session EXCEPT !.area = i], FALSE)

PressPredict == Rerun(session, TRUE)

Next ==
    \/ LoadArtifacts
    \/ RenderHeader
    \/ ReadClasses
    \/ RenderWidgets
    \/ Guard
    \/ EncodeItem
    \/ EncodeArea
    \/ Assemble
    \/ Scale
    \/ Predict
    \/ RenderResult
    \/ EndRun
    \/ ChangeYear
    \/ ChangeTemp
    \/ ChangeRainfall
    \/ ChangePesticide
    \/ ChangeItem
    \/ ChangeArea
    \/ PressPredict

Spec == Init /\ [][Next]_vars

\* ---------------------------------------------------- reading the page
IsError(m) == m.fn \in {"st.error", "st.sidebar.error"}

ErrorsShown == {i \in DOMAIN display : IsError(display[i])}

ResultShown == \E i \in DOMAIN display : display[i].fn = "st.success"

ArtifactCalls ==
    {"le_item.transform", "le_area.transform", "scaler.transform", "model.predict"}

HandlerSteps ==
    <<"guard", "le_item.transform", "le_area.transform", "assemble",
      "scaler.transform", "model.predict", "render">>

AllWidgets ==
    <<"year", "avg_temp", "rainfall", "pesticide_tonnes", "item_choice",
      "area_choice", "Predict Crop Yield">>

RunOver == pc \in {"done", "idle"}

\* The run is past the loading block and was not stopped there.
Loaded == pc \notin {"load", "halted"}

\* The run is past the option lists.
OptionsRead == pc \notin {"load", "halted", "header", "options"}

\* The last call of the prediction try block raised.
StepRaised ==
    /\ trace # <<>>
    /\ LET last == trace[Len(trace)]
       IN \/ last = "le_item.transform" /\ ~Transform(le_item, item_choice).ok
          \/ last = "le_area.transform" /\ ~Transform(le_area, area_choice).ok
          \/ last = "scaler.transform" /\ ~ScalerTransform(scaler, input_data).ok
          \/ last = "model.predict" /\ ~ModelPredict(model, input_data_scaled).ok

\* ----------------------------------------------------------------- C1
\* C1: when any of the four artifact files is missing or does not
\* deserialize, the run is halted by the loading block with exactly one
\* error on the page, no widget, no button, and no step of the prediction
\* handler: nothing is encoded, scaled or predicted from a subset of the
\* artifacts.
C1_LoadFailureHalts ==
    (pc # "load" /\ \E n \in Range(ArtifactOrder) : files[n].kind # "object") =>
        /\ pc = "halted"
        /\ Len(display) = 1
        /\ display[1].fn = "st.error"
        /\ display[1].line \in {13, 16}
        /\ widgets = <<>>
        /\ trace = <<>>
        /\ item_encoded = NoCode /\ area_encoded = NoCode
        /\ input_data = NoFrame /\ input_data_scaled = <<>> /\ prediction = <<>>

\* The model loaded, the scaler did not deserialize, and the run is halted.
C1_Witness ==
    /\ pc = "halted"
    /\ model # Unbound
    /\ files["scaler.pkl"].kind = "corrupt"
    /\ Len(display) = 1

\* ----------------------------------------------------------------- C2
\* C2: when reading classes_ of either encoder fails, both option lists are
\* ["Error"], the widgets are still rendered, and a press in that run shows
\* the configuration error and calls neither encoder, nor the scaler, nor
\* the model.
C2_UnreadableClassesBlockPredict ==
    (OptionsRead /\ ~(le_area.fitted /\ le_item.fitted)) =>
        /\ area_options = <<"Error">>
        /\ item_options = <<"Error">>
        /\ ClassesErrorMessage \in Range(display)
        /\ pc # "widgets" => widgets = AllWidgets
        /\ Range(trace) \cap ArtifactCalls = {}
        /\ ~ResultShown
        /\ (button /\ RunOver) =>
              /\ trace = <<"guard">>
              /\ display[Len(display)] = GuardErrorMessage

\* A press ended at the guard although le_area's classes were readable:
\* only le_item's were not.
C2_Witness ==
    /\ pc = "idle"
    /\ button
    /\ le_area.fitted
    /\ ~le_item.fitted
    /\ GuardErrorMessage \in Range(display)

\* ----------------------------------------------------------------- C3
C3_Caught ==
    StepRaised =>
        /\ RunOver
        /\ Cardinality(ErrorsShown) = 1
        /\ display[Len(display)].line = 86
        /\ display[Len(display)].args = <<Str(caught[Len(caught)].text)>>
        /\ ~ResultShown
        /\ prediction = <<>>
        /\ widgets = AllWidgets
        /\ model = files["crop_yield_model.pkl"].obj
        /\ scaler = files["scaler.pkl"].obj
        /\ le_area = files["le_area.pkl"].obj
        /\ le_item = files["le_item.pkl"].obj

C3_FreshRun ==
    pc = "load" =>
        /\ model = Unbound /\ scaler = Unbound /\ le_area = Unbound /\ le_item = Unbound
        /\ area_options = <<>> /\ item_options = <<>>
        /\ item_encoded = NoCode /\ area_encoded = NoCode
        /\ input_data = NoFrame /\ input_data_scaled = <<>> /\ prediction = <<>>
        /\ display = <<>> /\ trace = <<>> /\ caught = <<>>

C3_Isolated ==
    /\ pc # "idle" => (files' = files /\ session' = session)
    /\ (StepRaised /\ pc = "done") => pc' = "idle"
    /\ (StepRaised /\ pc = "idle" /\ nRuns < MaxRuns) => ENABLED PressPredict

\* C3: an exception raised by an encoder, the scaler or the model during a
\* press is caught: the press ends with one error message carrying the
\* exception text and no result, the run is not halted and the form stays
\* usable, the loaded artifacts are as loaded, a failed press changes neither
\* the files nor the widget values, and the next run starts from a fresh
\* namespace, so nothing of the failed press reaches a later one.
C3_PredictionErrorsAreIsolated ==
    [](C3_Caught /\ C3_FreshRun) /\ [][C3_Isolated]_vars

\* A press failed on a category that is not among the encoder's classes
\* (the empty option list selects None), after an earlier press.
C3_Witness ==
    /\ pc = "idle"
    /\ StepRaised
    /\ trace[Len(trace)] = "le_item.transform"
    /\ item_choice \notin Range(le_item.classes)
    /\ firstPress.done
    /\ nRuns >= 3

\* ----------------------------------------------------------------- C4
\* C4: the frame handed to scaler.transform has one row of exactly six
\* elements, [year, rainfall, avg_temp, pesticide_tonnes, area code, item
\* code], the area code being le_area's code of area_choice and the item code
\* le_item's code of item_choice, under the six column labels in that order.
C4_FeatureOrder ==
    (pc = "scale" \/ "scaler.transform" \in Range(trace)) =>
        /\ Len(input_data.row) = 6
        /\ input_data.row =
             <<session.year, session.rainfall, session.avg_temp,
               session.pesticide_tonnes,
               IndexOf(le_area.classes, area_options[session.area]) - 1,
               IndexOf(le_item.classes, item_options[session.item]) - 1>>
        /\ input_data.columns =
             <<"year", "average_rain_fall_mm_per_year", "avg_temp",
               "pesticide_tonnes", "area_encoded", "item_encoded">>

\* The frame is about to be scaled, with area code 0 and item code 2 and
\* values moved away from the defaults.
C4_Witness ==
    /\ pc = "scale"
    /\ input_data.row[5] = 0
    /\ input_data.row[6] = 2
    /\ input_data.row[1] = YearMax
    /\ input_data.row[3] = TempMin

\* ----------------------------------------------------------------- C5
RECURSIVE IsPrefix(_, _)
IsPrefix(s, t) ==
    \/ s = <<>>
    \/ /\ t # <<>>
       /\ Head(s) = Head(t)
       /\ IsPrefix(Tail(s), Tail(t))

\* C5: the handler runs only in a run started by a press of 'Predict Crop
\* Yield', never in a run started by an input change; its steps are taken in
\* the order guard, item code, area code, assemble, scale, predict, render,
\* each at most once, so there is at most one model.predict call per press;
\* and a step that fails ends the handler.
C5_PredictOnlyOnPress ==
    /\ trace # <<>> => button
    /\ ~button => (~ResultShown /\ prediction = <<>> /\ item_encoded = NoCode)
    /\ IsPrefix(trace, HandlerSteps)
    /\ pc = "encode_item" => trace = SubSeq(HandlerSteps, 1, 1)
    /\ pc = "encode_area" => trace = SubSeq(HandlerSteps, 1, 2)
    /\ pc = "assemble" => trace = SubSeq(HandlerSteps, 1, 3)
    /\ pc = "scale" => trace = SubSeq(HandlerSteps, 1, 4)
    /\ pc = "predict" => trace = SubSeq(HandlerSteps, 1, 5)
    /\ pc = "render" => trace = SubSeq(HandlerSteps, 1, 6)
    /\ ResultShown => trace = HandlerSteps
    /\ (StepRaised \/ GuardErrorMessage \in Range(display)) => RunOver

\* A press ran the whole handler after input changes had rerun the script.
C5_Witness ==
    /\ pc = "idle"
    /\ button
    /\ trace = HandlerSteps
    /\ session.year # YearDefault
    /\ session.item # 1

C7_EveryErrorHasExceptionText ==
    \A i \in ErrorsShown :
        \E j \in DOMAIN caught : Str(caught[j].text) \in Range(display[i].args)

\* C7 amended: of the error messages, the one for an artifact that does not
\* deserialize (line 16) and the one for a failed prediction (line 86)
\* carry the text of the exception caught; the ones for a missing file
\* (line 13), for unreadable encoder classes (line 39) and of the guard
\* (line 54) are fixed strings.
C7_ExceptionTextOnTwoPaths ==
    /\ \A i \in ErrorsShown :
          \/ /\ display[i].line \in {16, 86}
             /\ \E j \in DOMAIN caught :
                   /\ display[i].args = <<Str(caught[j].text)>>
                   /\ caught[j].type \notin {"FileNotFoundError", "AttributeError"}
          \/ /\ display[i].line \in {13, 39, 54}
             /\ display[i].args = <<>>
    /\ \A j \in DOMAIN caught :
          \E i \in ErrorsShown :
              display[i].line =
                 CASE caught[j].type = "FileNotFoundError" -> 13
                   [] caught[j].type = "UnpicklingError" -> 16
                   [] caught[j].type = "AttributeError" -> 39
                   [] OTHER -> 86

\* A press failed in the model and the page shows the exception's text.
C7_Witness ==
    /\ pc = "idle"
    /\ trace # <<>>
    /\ trace[Len(trace)] = "model.predict"
    /\ \E i \in ErrorsShown :
          display[i].args = <<Str("X has a different number of features")>>

InRange ==
    /\ year \in YearMin..YearMax
    /\ rainfall \in RainMin..RainMax
    /\ avg_temp \in TempMin..TempMax
    /\ pesticide_tonnes \in PestMin..PestMax

\* C9: a press with the six inputs in their ranges and both categories among
\* the classes of their encoders (the scaler and the model being fitted on
\* the six features) ends with a rendered result and no error message.
C9_ValidInputsGiveResult ==
    (RunOver /\ button /\ InRange
       /\ le_area.fitted /\ le_item.fitted
       /\ area_choice \in Range(le_area.classes)
       /\ item_choice \in Range(le_item.classes)
       /\ scaler.feature_names_in = feature_names
       /\ model.n_features_in = 6) =>
        /\ ResultShown
        /\ ErrorsShown = {}

\* ---------------------------------------------------------------- C10
\* C10: when both class lists were read, a press passes the guard and
\* reaches the encode step: the guard error is not shown.
C10_GuardOnlyOnUnreadableClasses ==
    (button /\ OptionsRead /\ pc \notin {"widgets", "guard"}
       /\ le_area.fitted /\ le_item.fitted) =>
        /\ GuardErrorMessage \notin Range(display)
        /\ "le_item.transform" \in Range(trace)
====
